---- MODULE Spec2Model ----
(***************************************************************************)
(* Model of src/server.js: an Express gateway in front of a MongoDB        *)
(* driver.  One JavaScript thread runs every callback to its next await,   *)
(* so each action below is one run-to-completion segment of the code.      *)
(***************************************************************************)
EXTENDS Integers, Sequences, FiniteSets, TLC

VARIABLES
  db,           \* line 15: "null" or "handle"
  client,       \* line 16: "null", or the state of the MongoClient it refers to
  closing,      \* how many close() calls of line 274 are awaited on the MongoClient
                \* that `client` refers to
  closingOld,   \* how many are awaited on MongoClients that line 23 has replaced since
  isConnected,  \* line 17
  connPc,       \* the running connectDB() invocations, oldest first: each is suspended
                \* at "connect" (line 27) or at "ping" (line 28)
  retryTimer,   \* how many setTimeout(connectDB, 5000) of line 36 are pending
  reachable,    \* environment: the database server answers
  main,         \* process phase: "init", "starting", "listening", "draining", "closingDb", "exited"
  exitCode,     \* -1 while running, else the code passed to process.exit
  signals,      \* termination signals handled so far
  forceTimer,   \* a force-exit timer of line 283 is pending
  req,          \* per in-flight slot: the request, its handler's position and its response
  conn,         \* per slot, once server.close was called: the connection is still open
  store,        \* the database: the stored documents with their collection, oldest first
  nextId,       \* the driver's ObjectId generator
  now           \* the wall clock read by new Date()

vars == <<db, client, closing, closingOld, isConnected, connPc, retryTimer, reachable, main, exitCode,
          signals, forceTimer, req, conn, store, nextId, now>>

connVars == <<db, client, closing, closingOld, isConnected, connPc, retryTimer>>
procVars == <<main, exitCode, signals, forceTimer>>
dataVars == <<store, nextId>>

-----------------------------------------------------------------------------
(* Bounds of the model.                                                    *)

MaxInFlight == 2   \* request slots handled concurrently
MaxStored == 2     \* documents the database holds at most
MaxClock == 1      \* clock ticks
MaxSignals == 2    \* termination signals delivered

Slots == 1..MaxInFlight

-----------------------------------------------------------------------------
(* JSON and JavaScript values.  Every value is a record [k, s, o]: k is    *)
(* the JavaScript type, s the text of a primitive, o the own enumerable    *)
(* properties of an object or array (an array's keys are its indices).     *)
(* Strings of the model have at most one character, except the fixed texts *)
(* of responses, which are never spread.                                   *)

NoProps == <<>>

Undef == [k |-> "undefined", s |-> "", o |-> NoProps]
Null == [k |-> "null", s |-> "", o |-> NoProps]
Bool(b) == [k |-> "boolean", s |-> IF b THEN "true" ELSE "false", o |-> NoProps]
Num(n) == [k |-> "number", s |-> ToString(n), o |-> NoProps]
Str(s) == [k |-> "string", s |-> s, o |-> NoProps]
Obj(f) == [k |-> "object", s |-> "", o |-> f]
Date(t) == [k |-> "date", s |-> ToString(t), o |-> NoProps]
ObjectId(n) == [k |-> "objectid", s |-> "oid" \o ToString(n), o |-> NoProps]

IdxKey(i) == ToString(i)
Arr(seq) == [k |-> "array", s |-> "",
             o |-> [key \in {IdxKey(i - 1) : i \in 1..Len(seq)} |->
                      seq[CHOOSE i \in 1..Len(seq) : IdxKey(i - 1) = key]]]

ArrLen(v) == Cardinality(DOMAIN v.o)
ArrAt(v, i) == v.o[IdxKey(i)]          \* 0-based, as in JavaScript
ArrSeq(v) == [i \in 1..ArrLen(v) |-> ArrAt(v, i - 1)]

\* !v is false exactly for these
Truthy(v) ==
  CASE v.k = "undefined" -> FALSE
    [] v.k = "null" -> FALSE
    [] v.k = "boolean" -> v.s = "true"
    [] v.k = "number" -> v.s # "0"
    [] v.k = "string" -> v.s # ""
    [] OTHER -> TRUE

IsArray(v) == v.k = "array"

\* {...v}: the own enumerable properties of v
Spread(v) ==
  CASE v.k = "object" -> v.o
    [] v.k = "array" -> v.o
    [] v.k = "string" -> IF v.s = "" THEN NoProps ELSE ("0" :> Str(v.s))
    [] OTHER -> NoProps

\* {...f, ...g}: a later property replaces an earlier one of the same name
Merge(f, g) ==
  [key \in (DOMAIN f) \cup (DOMAIN g) |-> IF key \in DOMAIN g THEN g[key] ELSE f[key]]

Has(v, key) == key \in DOMAIN v.o

-----------------------------------------------------------------------------
(* Configuration and requests.                                             *)

API_KEY == "k"

Field(body, f) == IF f \in DOMAIN body THEN body[f] ELSE Undef

NoResp == [status |-> 0, body |-> NoProps]
Respond(st, b) == [status |-> st, body |-> b]
Failure(msg) == ("success" :> Bool(FALSE)) @@ ("error" :> Str(msg))

NoOp == [kind |-> "none", coll |-> "", arg |-> Undef, filter |-> Undef]

IdleSlot == [pc |-> "idle", method |-> "", path |-> "", at |-> 0, body0 |-> NoProps,
             body |-> NoProps,
             ran |-> FALSE, op |-> NoOp,
             atCall |-> [isConnected |-> FALSE, db |-> "null"], thrown |-> "",
             resp |-> NoResp, nresp |-> 0]

-----------------------------------------------------------------------------
(* Connection manager: connectDB, lines 20-38, and its callers.  MONGO_URI  *)
(* is a well-formed connection string: the constructor of line 23 returns  *)
(* a client, and an attempt fails at one of its two awaits.                *)

Usable == client = "connected" /\ reachable

\* the connectDB() invocations that are suspended at an await
Attempts == 1..Len(connPc)

\* one invocation fewer: the i-th has returned
Without(seq, i) == SubSeq(seq, 1, i - 1) \o SubSeq(seq, i + 1, Len(seq))

\* startServer() runs connectDB() up to `await client.connect()` (lines 250-252, 22-27)
StartServer ==
  /\ main = "init"
  /\ main' = "starting"
  /\ client' = "created"
  /\ connPc' = Append(connPc, "connect")
  /\ UNCHANGED <<db, closing, closingOld, isConnected, retryTimer, reachable, exitCode, signals, forceTimer,
                 req, conn, store, nextId, now>>

\* the retry armed with setInterval: the timer stays pending after it has fired
RetryFireInterval ==
  /\ main \notin {"init", "exited"}
  /\ retryTimer > 0
  /\ client' = "created"
  /\ closing' = 0
  /\ closingOld' = closingOld + closing
  /\ connPc' = Append(connPc, "connect")
  /\ UNCHANGED <<db, isConnected, retryTimer, reachable, procVars, req, conn, store, nextId, now>>

\* a retry timer of line 36 fires and runs connectDB() up to its first await: line 23
\* makes `client` refer to a new MongoClient, which nothing has called close() on
RetryFire ==
  /\ main \notin {"init", "exited"}
  /\ retryTimer > 0
  /\ retryTimer' = retryTimer - 1
  /\ client' = "created"
  /\ closing' = 0
  /\ closingOld' = closingOld + closing
  /\ connPc' = Append(connPc, "connect")
  /\ UNCHANGED <<db, isConnected, reachable, procVars, req, conn, store, nextId, now>>

\* startServer resumes after `await connectDB()`, the invocation it made itself:
\* app.listen and the signal handlers
AfterConnect(i) == IF main = "starting" /\ i = 1 THEN "listening" ELSE main

\* client.connect() resolves (line 27); connectDB suspends again on the ping (line 28)
ConnectResolved(i) ==
  /\ main \notin {"init", "exited"}
  /\ connPc[i] = "connect"
  /\ reachable
  /\ client' = "connected"
  /\ connPc' = [connPc EXCEPT ![i] = "ping"]
  /\ UNCHANGED <<db, closing, closingOld, isConnected, retryTimer, reachable, procVars, req, conn, store, nextId, now>>

\* the success path also arming the timer of line 36, to look at the connection again
PingResolvedKeepsWatch(i) ==
  /\ main \notin {"init", "exited"}
  /\ connPc[i] = "ping"
  /\ reachable
  /\ db' = "handle"
  /\ isConnected' = TRUE
  /\ retryTimer' = retryTimer + 1
  /\ connPc' = Without(connPc, i)
  /\ main' = AfterConnect(i)
  /\ UNCHANGED <<client, closing, closingOld, reachable, exitCode, signals, forceTimer, req, conn, store, nextId, now>>

\* the ping resolves: lines 29-31
PingResolved(i) ==
  /\ main \notin {"init", "exited"}
  /\ connPc[i] = "ping"
  /\ reachable
  /\ db' = "handle"
  /\ isConnected' = TRUE
  /\ connPc' = Without(connPc, i)
  /\ main' = AfterConnect(i)
  /\ UNCHANGED <<client, closing, closingOld, retryTimer, reachable, exitCode, signals, forceTimer,
                 req, conn, store, nextId, now>>

\* the catch block rethrowing: the rejection reaches startServer().catch (lines 303-306)
\* when startServer made the call, and is only logged (line 298) when a timer made it
ConnectFailedAborts(i) ==
  /\ main \notin {"init", "exited"}
  /\ connPc[i] \in {"connect", "ping"}
  /\ ~reachable
  /\ isConnected' = FALSE
  /\ retryTimer' = retryTimer + 1
  /\ connPc' = Without(connPc, i)
  /\ main' = IF main = "starting" /\ i = 1 THEN "exited" ELSE main
  /\ exitCode' = IF main = "starting" /\ i = 1 THEN 1 ELSE exitCode
  /\ UNCHANGED <<db, client, closing, closingOld, reachable, signals, forceTimer, req, conn, store, nextId, now>>

\* the catch block without the setTimeout of line 36
ConnectFailedNoRetry(i) ==
  /\ main \notin {"init", "exited"}
  /\ connPc[i] \in {"connect", "ping"}
  /\ ~reachable
  /\ isConnected' = FALSE
  /\ connPc' = Without(connPc, i)
  /\ main' = AfterConnect(i)
  /\ UNCHANGED <<db, client, closing, closingOld, retryTimer, reachable, exitCode, signals, forceTimer,
                 req, conn, store, nextId, now>>

\* connect or ping rejects: the catch block, lines 32-37
ConnectFailed(i) ==
  /\ main \notin {"init", "exited"}
  /\ connPc[i] \in {"connect", "ping"}
  /\ ~reachable
  /\ isConnected' = FALSE
  /\ retryTimer' = retryTimer + 1
  /\ connPc' = Without(connPc, i)
  /\ main' = AfterConnect(i)
  /\ UNCHANGED <<db, client, closing, closingOld, reachable, exitCode, signals, forceTimer,
                 req, conn, store, nextId, now>>

\* environment: the database server goes away or comes back
Outage ==
  /\ main # "exited"
  /\ reachable
  /\ reachable' = FALSE
  /\ UNCHANGED <<connVars, procVars, req, conn, store, nextId, now>>

Restore ==
  /\ main # "exited"
  /\ ~reachable
  /\ reachable' = TRUE
  /\ UNCHANGED <<connVars, procVars, req, conn, store, nextId, now>>

\* environment: time passes
Tick ==
  /\ main # "exited"
  /\ now < MaxClock
  /\ now' = now + 1
  /\ UNCHANGED <<connVars, reachable, procVars, req, conn, store, nextId>>

-----------------------------------------------------------------------------
(* Process lifecycle: shutdown, lines 266-290.                             *)

InFlight == {r \in Slots : req[r].pc = "awaitDb"}

\* the open connections on which no request is in progress
Idle == {r \in Slots : conn[r] /\ req[r].pc = "idle"}

\* what server.close leaves open of the connections of the clients in `slots`.
\* When it is called first: one with a request in progress, unless its client has
\* closed it by then, and one whose request is arriving or that the runtime does
\* not count as idle.  When it is called again: the open ones that are not idle
\* and any of the idle ones
LeftOpen(slots) ==
  IF main = "listening"
    THEN {[r \in Slots |-> r \in open] : open \in SUBSET slots}
    ELSE {[r \in Slots |-> conn[r] /\ (r \in Idle => r \in kept)] : kept \in SUBSET Idle}

\* the client of slot r closes its connection while the server is closing, or the
\* keep-alive timeout does; a handler that awaits the database stays suspended
Disconnect(r) ==
  /\ main = "draining"
  /\ conn[r]
  /\ conn' = [conn EXCEPT ![r] = FALSE]
  /\ UNCHANGED <<connVars, reachable, procVars, req, store, nextId, now>>

\* SIGTERM or SIGINT: shutdown() calls server.close, which stops the listener and
\* ends idle connections, and arms the force timer.  The callback it passes waits
\* for the server to close; when the server has closed already, it runs at once,
\* up to `await client.close()` on the MongoClient that `client` then refers to
Signal(slots) ==
  /\ main \in {"listening", "draining", "closingDb"}
  /\ signals < MaxSignals
  /\ signals' = signals + 1
  /\ forceTimer' = TRUE
  /\ main' = IF main = "listening" THEN "draining" ELSE main
  /\ conn' \in LeftOpen(slots)
  /\ closing' = IF main = "closingDb" THEN closing + 1 ELSE closing
  /\ UNCHANGED <<db, client, closingOld, isConnected, connPc, retryTimer, reachable, exitCode,
                 req, store, nextId, now>>

\* every connection has ended: the server closes and the callback of every signal
\* so far runs to `await client.close()`, each calling close() on the MongoClient
\* that `client` refers to at that moment
Drained ==
  /\ main = "draining"
  /\ \A r \in Slots : ~conn[r]
  /\ main' = "closingDb"
  /\ closing' = signals
  /\ UNCHANGED <<db, client, closingOld, isConnected, connPc, retryTimer, reachable, exitCode, signals, forceTimer, req, conn, store, nextId, now>>

\* one of the awaited close() calls resolves; process.exit(0), lines 274-279.  The
\* MongoClient that is closed by then is the one `client` refers to, or one that a
\* retry has replaced; a call on a client that is closed already resolves as well
CloseResolved ==
  /\ main = "closingDb"
  /\ \/ closing > 0 /\ client' = "closed"
     \/ closingOld > 0 /\ client' = client
  /\ closing' = 0
  /\ closingOld' = 0
  /\ main' = "exited"
  /\ exitCode' = 0
  /\ UNCHANGED <<db, isConnected, connPc, retryTimer, reachable, signals, forceTimer,
                 req, conn, store, nextId, now>>

\* the force timer fires: process.exit(1), lines 283-286; the connections that are
\* still open and the wait for close() end with the process
ForceExit ==
  /\ main # "exited"
  /\ forceTimer
  /\ main' = "exited"
  /\ exitCode' = 1
  /\ conn' = [r \in Slots |-> FALSE]
  /\ closing' = 0
  /\ closingOld' = 0
  /\ UNCHANGED <<db, client, isConnected, connPc, retryTimer, reachable, signals, forceTimer,
                 req, store, nextId, now>>

-----------------------------------------------------------------------------
(* Endpoint layer: lines 40-247.                                           *)

\* The file sets neither 'case sensitive routing' nor 'strict routing', so a route
\* path matches without regard to the case of its letters and with or without one
\* slash at its end.  The request paths of this model, in lower case:
lowerCase(path) ==
  CASE path = "/HEALTH" -> "/health"
    [] path = "/API/UPDATE" -> "/api/update"
    [] path = "/Api/Insert_Many/" -> "/api/insert_many/"
    [] OTHER -> path

\* and without the slash at their end
withoutEndSlash(path) ==
  CASE path = "/health/" -> "/health"
    [] path = "/api/insert/" -> "/api/insert"
    [] path = "/api/insert_many/" -> "/api/insert_many"
    [] path = "/api/delete/" -> "/api/delete"
    [] OTHER -> path

\* the path as the routes of lines 67-183 compare it
routePath(path) == withoutEndSlash(lowerCase(path))

\* a route registered with app.get also answers HEAD
routeMethod(method) == IF method = "HEAD" THEN "GET" ELSE method

\* Express routing: the first route whose method and path match; else the catch-all
Route(method, path) ==
  LET m == routeMethod(method)
      p == routePath(path)
  IN
  CASE m = "GET" /\ p = "/" -> "root"
    [] m = "GET" /\ p = "/health" -> "health"
    [] m = "POST" /\ p = "/api/insert" -> "insert"
    [] m = "POST" /\ p = "/api/insert_many" -> "insert_many"
    [] m = "PUT" /\ p = "/api/update" -> "update"
    [] OTHER -> "notfound"

\* authenticate without the delete of line 62
authenticateKeepsKey(body) ==
  LET apiKey == Field(body, "api_key") IN
  IF ~Truthy(apiKey)
    THEN [next |-> FALSE, resp |-> Respond(401, Failure("Missing api_key in request body")),
          body |-> body]
    ELSE IF apiKey # Str(API_KEY)
      THEN [next |-> FALSE, resp |-> Respond(401, Failure("Invalid api_key")), body |-> body]
      ELSE [next |-> TRUE, resp |-> NoResp, body |-> body]

\* lines 41-64: [next: the handler is called, resp: the reply otherwise, body: req.body after]
authenticate(body) ==
  LET apiKey == Field(body, "api_key") IN
  IF ~Truthy(apiKey)
    THEN [next |-> FALSE, resp |-> Respond(401, Failure("Missing api_key in request body")),
          body |-> body]
    ELSE IF apiKey # Str(API_KEY)
      THEN [next |-> FALSE, resp |-> Respond(401, Failure("Invalid api_key")), body |-> body]
      ELSE [next |-> TRUE, resp |-> NoResp,
            body |-> [f \in (DOMAIN body) \ {"api_key"} |-> body[f]]]

\* the handlers without their connectivity check
NotConnectedNever(isC, d) == FALSE

\* line 100, 148, 196
NotConnected(isC, d) == ~isC \/ d = "null"

\* lines 101, 149, 197
NotConnectedResp == Respond(503, Failure("Database not connected"))

\* the record with the request's key added to it
docToInsertLeaky(document, metadata, t) ==
  Merge(Merge(Merge(Spread(document), Spread(metadata)), "createdAt" :> Date(t)),
        "api_key" :> Str(API_KEY))

\* the record with createdAt spread first, so that the caller's createdAt replaces it
docToInsertCallerWins(document, metadata, t) ==
  Merge(Merge("createdAt" :> Date(t), Spread(document)), Spread(metadata))

\* lines 109-113
docToInsert(document, metadata, t) ==
  Merge(Merge(Spread(document), Spread(metadata)), "createdAt" :> Date(t))

\* the insert handler with the connectivity check moved before the field validation
insertHandlerConnFirst(body, isC, d, t) ==
  LET collection == Field(body, "collection")
      document == Field(body, "document")
      metadata == Field(body, "metadata")
  IN
  IF NotConnected(isC, d)
    THEN [resp |-> NotConnectedResp, op |-> NoOp]
    ELSE IF ~Truthy(collection) \/ ~Truthy(document)
      THEN [resp |-> Respond(400, Failure("Missing required fields: collection, document")),
            op |-> NoOp]
      ELSE [resp |-> NoResp,
            op |-> [kind |-> "insertOne", coll |-> collection.s,
                    arg |-> Obj(docToInsert(document, metadata, t)), filter |-> Undef]]

\* lines 91-115: the handler up to its database call
insertHandler(body, isC, d, t) ==
  LET collection == Field(body, "collection")
      document == Field(body, "document")
      metadata == Field(body, "metadata")
  IN
  IF ~Truthy(collection) \/ ~Truthy(document)
    THEN [resp |-> Respond(400, Failure("Missing required fields: collection, document")),
          op |-> NoOp]
    ELSE IF NotConnected(isC, d)
      THEN [resp |-> NotConnectedResp, op |-> NoOp]
      ELSE [resp |-> NoResp,
            op |-> [kind |-> "insertOne", coll |-> collection.s,
                    arg |-> Obj(docToInsert(document, metadata, t)), filter |-> Undef]]

\* the position of an array's key, from 1
Position(v, key) == CHOOSE i \in 1..ArrLen(v) : IdxKey(i - 1) = key

\* the elements stamped with createdAt only
docsToInsertNoMetadata(documents, metadata, ts) ==
  [key \in DOMAIN documents.o |->
     Obj(docToInsert(documents.o[key], Undef, ts[Position(documents, key)]))]

\* lines 157-161: map calls new Date() once for every element, in order; ts are the
\* times it reads
docsToInsert(documents, metadata, ts) ==
  [key \in DOMAIN documents.o |->
     Obj(docToInsert(documents.o[key], metadata, ts[Position(documents, key)]))]

\* lines 139-163
insertManyHandler(body, isC, d, ts) ==
  LET collection == Field(body, "collection")
      documents == Field(body, "documents")
      metadata == Field(body, "metadata")
  IN
  IF ~Truthy(collection) \/ ~Truthy(documents) \/ ~IsArray(documents)
    THEN [resp |-> Respond(400, Failure("Missing required fields: collection, documents (array)")),
          op |-> NoOp]
    ELSE IF NotConnected(isC, d)
      THEN [resp |-> NotConnectedResp, op |-> NoOp]
      ELSE [resp |-> NoResp,
            op |-> [kind |-> "insertMany", coll |-> collection.s,
                    arg |-> [k |-> "array", s |-> "", o |-> docsToInsert(documents, metadata, ts)],
                    filter |-> Undef]]

\* the $set mapping without the updatedAt stamp
setDocNoStamp(update, t) == Spread(update)

\* lines 206-211
setDoc(update, t) == Merge(Spread(update), "updatedAt" :> Date(t))

\* lines 187-212
updateHandler(body, isC, d, t) ==
  LET collection == Field(body, "collection")
      filter == Field(body, "filter")
      update == Field(body, "update")
  IN
  IF ~Truthy(collection) \/ ~Truthy(filter) \/ ~Truthy(update)
    THEN [resp |-> Respond(400, Failure("Missing required fields: collection, filter, update")),
          op |-> NoOp]
    ELSE IF NotConnected(isC, d)
      THEN [resp |-> NotConnectedResp, op |-> NoOp]
      ELSE [resp |-> NoResp,
            op |-> [kind |-> "updateOne", coll |-> collection.s,
                    arg |-> Obj("$set" :> Obj(setDoc(update, t))), filter |-> filter]]

\* lines 67-74
rootResp(isC) ==
  Respond(200, ("service" :> Str("QuantConnect MongoDB API")) @@ ("version" :> Str("1.0.0"))
               @@ ("status" :> Str(IF isC THEN "connected" ELSE "connecting"))
               @@ ("endpoints" :> Arr(<<Str("/health"), Str("/api/insert"),
                                        Str("/api/insert_many"), Str("/api/update")>>)))

\* lines 77-84
healthResp(isC, t) ==
  Respond(200, ("status" :> Str("ok"))
               @@ ("mongodb" :> Str(IF isC THEN "connected" ELSE "disconnected"))
               @@ ("timestamp" :> Str(ToString(t))) @@ ("uptime" :> Num(t)))

\* the 404 reply with its message only
notFoundRespPlain == Respond(404, "error" :> Str("Endpoint not found"))

\* lines 233-238
notFoundResp == Respond(404, Failure("Endpoint not found"))

\* lines 241-247
serverErrorResp == Respond(500, Failure("Internal server error"))

\* the route's handler, run to its first await or to its response; ts are the times
\* its calls of new Date() read, in order
handler(route, body, isC, d, ts) ==
  CASE route = "insert" -> insertHandler(body, isC, d, ts[1])
    [] route = "insert_many" -> insertManyHandler(body, isC, d, ts)
    [] route = "update" -> updateHandler(body, isC, d, ts[1])
    [] route = "root" -> [resp |-> rootResp(isC), op |-> NoOp]
    [] route = "health" -> [resp |-> healthResp(isC, ts[1]), op |-> NoOp]
    [] OTHER -> [resp |-> notFoundResp, op |-> NoOp]

Authenticated(route) == route \in {"insert", "insert_many", "update"}

\* one request from arrival to its first suspension point
dispatch(method, path, body, isC, d, ts) ==
  LET route == Route(method, path)
      auth == IF Authenticated(route) THEN authenticate(body)
              ELSE [next |-> TRUE, resp |-> NoResp, body |-> body]
      h == handler(route, auth.body, isC, d, ts)
      base == [IdleSlot EXCEPT !.method = method, !.path = path, !.at = ts[1], !.body0 = body,
                               !.body = auth.body]
  IN
  IF ~auth.next THEN [base EXCEPT !.pc = "done", !.resp = auth.resp, !.nresp = 1]
  ELSE IF h.op.kind = "none"
    THEN [base EXCEPT !.pc = "done", !.ran = TRUE, !.resp = h.resp, !.nresp = 1]
    ELSE [base EXCEPT !.pc = "awaitDb", !.ran = TRUE, !.op = h.op,
                      !.atCall = [isConnected |-> isC, db |-> d]]

\* how many times the handler of the request reads the clock before it suspends or
\* answers: once for every element of an insert_many that reaches line 157
ClockReads(q, isC, d) ==
  LET documents == Field(q.body, "documents")
      n == IF IsArray(documents) /\ ArrLen(documents) > 0 THEN ArrLen(documents) ELSE 1
      dry == dispatch(q.method, q.path, q.body, isC, d, [i \in 1..n |-> 0])
  IN IF dry.op.kind = "insertMany" THEN n ELSE 1

\* n successive readings of a clock that shows t at the first
Readings(n, t) ==
  {ts \in [1..n -> t..MaxClock] : ts[1] = t /\ \A i \in 1..(n - 1) : ts[i] <= ts[i + 1]}

\* slot r can take a request: on any connection while the server listens, on one
\* that is still open once server.close was called
CanReceive(r) ==
  /\ req[r].pc = "idle"
  /\ main = "listening" \/ (main = "draining" /\ conn[r])

\* a request arrives; slots are interchangeable, so it takes the lowest one that can
\* take it.  The clock may advance while the handler runs.
Receive(r, q) ==
  /\ CanReceive(r)
  /\ \A r2 \in Slots : r2 < r => ~CanReceive(r2)
  /\ \E ts \in Readings(ClockReads(q, isConnected, db), now) :
       /\ req' = [req EXCEPT ![r] = dispatch(q.method, q.path, q.body, isConnected, db, ts)]
       /\ now' = ts[Len(ts)]
  /\ UNCHANGED <<connVars, reachable, procVars, conn, store, nextId>>

\* a request whose body express.json() cannot parse (line 7): the parser hands its
\* error to the error handler of lines 241-247 and no route runs
ParseFailed(r, q) ==
  /\ CanReceive(r)
  /\ \A r2 \in Slots : r2 < r => ~CanReceive(r2)
  /\ req' = [req EXCEPT ![r] = [IdleSlot EXCEPT !.pc = "done", !.method = q.method,
                                                !.path = q.path, !.at = now,
                                                !.resp = serverErrorResp, !.nresp = 1]]
  /\ UNCHANGED <<connVars, reachable, procVars, conn, store, nextId, now>>

-----------------------------------------------------------------------------
(* The driver and the database behind it, as the calls of lines 115, 163   *)
(* and 204 use them.  Filters match by equality of the listed fields.      *)

Stored == Len(store)

Matches(doc, filter) ==
  \A key \in DOMAIN filter.o : key \in DOMAIN doc.o /\ doc.o[key] = filter.o[key]

FirstMatch(coll, filter) ==
  LET hits == {i \in 1..Len(store) : store[i].coll = coll /\ Matches(store[i].doc, filter)}
  IN IF hits = {} THEN 0 ELSE CHOOSE i \in hits : \A j \in hits : i <= j

\* whether the driver can carry the operation out
CanSucceed(op) ==
  /\ Usable
  /\ op.kind = "insertOne" => Stored + 1 <= MaxStored
  /\ op.kind = "insertMany" => ArrLen(op.arg) > 0 /\ Stored + ArrLen(op.arg) <= MaxStored

WithId(doc, n) == Obj(Merge(doc.o, "_id" :> ObjectId(n)))

\* the collection after the operation
storeAfter(op) ==
  CASE op.kind = "insertOne" ->
         Append(store, [coll |-> op.coll, doc |-> WithId(op.arg, nextId)])
    [] op.kind = "insertMany" ->
         store \o [i \in 1..ArrLen(op.arg) |->
                     [coll |-> op.coll, doc |-> WithId(ArrAt(op.arg, i - 1), nextId + i - 1)]]
    [] op.kind = "updateOne" ->
         LET i == FirstMatch(op.coll, op.filter) IN
         IF i = 0 THEN store
         ELSE [store EXCEPT ![i].doc = Obj(Merge(store[i].doc.o, op.arg.o["$set"].o))]
    [] OTHER -> store

idsUsed(op) ==
  CASE op.kind = "insertOne" -> 1
    [] op.kind = "insertMany" -> ArrLen(op.arg)
    [] OTHER -> 0

\* the driver's result object
driverResult(op) ==
  CASE op.kind = "insertOne" -> ("insertedId" :> ObjectId(nextId))
    [] op.kind = "insertMany" -> ("insertedCount" :> Num(ArrLen(op.arg)))
    [] op.kind = "updateOne" ->
         LET i == FirstMatch(op.coll, op.filter) IN
         ("matchedCount" :> Num(IF i = 0 THEN 0 ELSE 1))
         @@ ("modifiedCount" :> Num(IF i # 0 /\ storeAfter(op) # store THEN 1 ELSE 0))
    [] OTHER -> NoProps

\* lines 119-123, 167-171, 216-221
successResp(op, collection, result) ==
  CASE op.kind = "insertOne" ->
         Respond(200, ("success" :> Bool(TRUE)) @@ ("insertedId" :> Str(result["insertedId"].s))
                      @@ ("collection" :> collection))
    [] op.kind = "insertMany" ->
         Respond(200, ("success" :> Bool(TRUE)) @@ ("insertedCount" :> result["insertedCount"])
                      @@ ("collection" :> collection))
    [] OTHER ->
         Respond(200, ("success" :> Bool(TRUE)) @@ ("matchedCount" :> result["matchedCount"])
                      @@ ("modifiedCount" :> result["modifiedCount"])
                      @@ ("collection" :> collection))

\* the catch block answering as the catch-all error handler does
errorRespGeneric(message) == Respond(500, Failure("Internal server error"))

\* lines 125-131, 173-179, 223-229
errorResp(message) == Respond(500, Failure(message))

\* the awaited driver call resolves and the handler sends its response
DbResolved(r) ==
  /\ main # "exited"
  /\ req[r].pc = "awaitDb"
  /\ CanSucceed(req[r].op)
  /\ store' = storeAfter(req[r].op)
  /\ nextId' = nextId + idsUsed(req[r].op)
  /\ req' = [req EXCEPT ![r].pc = "done",
                        ![r].resp = successResp(req[r].op, Field(req[r].body, "collection"),
                                                driverResult(req[r].op)),
                        ![r].nresp = req[r].nresp + 1]
  /\ UNCHANGED <<connVars, reachable, procVars, conn, now>>

\* the messages the driver may reject the call with
DriverErrors(op) ==
  IF op.kind = "insertMany" /\ ArrLen(op.arg) = 0
    THEN {"Invalid BulkOperation, Batch cannot be empty"}
    ELSE IF Usable THEN {"write failed"} ELSE {"Server selection timed out"}

\* the catch block also marking the connection as lost
DbRejectedMarksDown(r) ==
  /\ main # "exited"
  /\ req[r].pc = "awaitDb"
  /\ \E message \in DriverErrors(req[r].op) :
       req' = [req EXCEPT ![r].pc = "done", ![r].thrown = message,
                          ![r].resp = errorResp(message),
                          ![r].nresp = req[r].nresp + 1]
  /\ isConnected' = FALSE
  /\ UNCHANGED <<db, client, closing, closingOld, connPc, retryTimer, reachable, procVars, conn, store, nextId, now>>

\* the awaited driver call rejects: the handler's catch block
DbRejected(r) ==
  /\ main # "exited"
  /\ req[r].pc = "awaitDb"
  /\ \E message \in DriverErrors(req[r].op) :
       req' = [req EXCEPT ![r].pc = "done", ![r].thrown = message,
                          ![r].resp = errorResp(message),
                          ![r].nresp = req[r].nresp + 1]
  /\ UNCHANGED <<connVars, reachable, procVars, conn, store, nextId, now>>

\* the response has been delivered and the slot serves the next request
Recycle(r) ==
  /\ main # "exited"
  /\ req[r].pc = "done"
  /\ req' = [req EXCEPT ![r] = IdleSlot]
  /\ UNCHANGED <<connVars, reachable, procVars, conn, store, nextId, now>>

-----------------------------------------------------------------------------
(* Requests the environment sends.  A body lists the fields it carries; a  *)
(* field given as Undef below is left out of the body.                     *)

Body(f) == [x \in {y \in DOMAIN f : f[y] # Undef} |-> f[x]]

Request(method, path, f) == [method |-> method, path |-> path, body |-> Body(f)]

Key == Str(API_KEY)
ApiKeys == {Undef, Null, Str(""), Str("x"), Bool(TRUE), Key}

One(key, v) == Obj(key :> v)

\* every combination of key, collection and required fields, present or not
GateRequests ==
  {Request("POST", "/api/insert",
           ("api_key" :> a) @@ ("collection" :> c) @@ ("document" :> d)) :
     a \in ApiKeys, c \in {Undef, Str("c")}, d \in {Undef, One("a", Num(1))}}
  \cup
  {Request("POST", "/api/insert_many",
           ("api_key" :> a) @@ ("collection" :> c) @@ ("documents" :> d)) :
     a \in ApiKeys, c \in {Undef, Str("c")},
     d \in {Undef, One("a", Num(1)), Arr(<<One("a", Num(1))>>)}}
  \cup
  {Request("PUT", "/api/update",
           ("api_key" :> a) @@ ("collection" :> c) @@ ("filter" :> f) @@ ("update" :> u)) :
     a \in ApiKeys, c \in {Undef, Str("c")}, f \in {Undef, One("a", Num(1))},
     u \in {Undef, One("b", Num(2))}}
  \cup
  {Request("DELETE", "/api/delete",
           ("api_key" :> a) @@ ("collection" :> Str("c")) @@ ("filter" :> One("a", Num(1)))) :
     a \in {Undef, Key}}
  \cup
  {Request("POST", "/api/query", ("api_key" :> a) @@ ("collection" :> Str("c"))) :
     a \in {Undef, Key}}
  \cup
  {Request("GET", "/health", NoProps), Request("GET", "/", NoProps)}
  \cup
  \* the routed paths in another case or with a slash at the end, and HEAD
  {Request("GET", "/HEALTH", NoProps), Request("GET", "/health/", NoProps),
   Request("HEAD", "/health", NoProps), Request("HEAD", "/api/insert", NoProps)}
  \cup
  {Request("POST", "/api/insert/",
           ("api_key" :> a) @@ ("collection" :> Str("c")) @@ ("document" :> One("a", Num(1)))) :
     a \in {Undef, Key}}
  \cup
  {Request("POST", "/Api/Insert_Many/",
           ("api_key" :> a) @@ ("collection" :> Str("c"))
           @@ ("documents" :> Arr(<<One("a", Num(1))>>))) :
     a \in {Undef, Key}}
  \cup
  {Request("PUT", "/API/UPDATE",
           ("api_key" :> a) @@ ("collection" :> Str("c")) @@ ("filter" :> One("a", Num(1)))
           @@ ("update" :> One("b", Num(2)))) :
     a \in {Undef, Key}}
  \cup
  {Request("DELETE", "/api/delete/",
           ("collection" :> Str("c")) @@ ("filter" :> One("a", Num(1))))}

\* a few requests of every kind, for the interleavings of handlers with the lifecycle
CoreRequests ==
  {Request("POST", "/api/insert",
           ("api_key" :> Key) @@ ("collection" :> Str("c")) @@ ("document" :> One("a", Num(1)))),
   Request("POST", "/api/insert_many",
           ("api_key" :> Key) @@ ("collection" :> Str("c"))
           @@ ("documents" :> Arr(<<One("a", Num(1))>>))),
   Request("PUT", "/api/update",
           ("api_key" :> Key) @@ ("collection" :> Str("c")) @@ ("filter" :> One("a", Num(1)))
           @@ ("update" :> One("b", Num(2)))),
   Request("POST", "/api/insert", ("api_key" :> Str("x")) @@ ("collection" :> Str("c"))),
   Request("GET", "/health", NoProps)}

\* payloads of every shape the handlers treat differently
Mapping3(k1, v1, k2, v2, k3, v3) == Obj((k1 :> v1) @@ (k2 :> v2) @@ (k3 :> v3))

DocumentValues ==
  {Obj(NoProps), One("a", Num(1)), Mapping3("a", Num(1), "api_key", Key, "createdAt", Num(5)), Str("x")}

MetadataValues == {Undef, Mapping3("a", Num(2), "api_key", Key, "createdAt", Num(6))}

DocumentsValues ==
  {Arr(<<>>), Arr(<<One("a", Num(1))>>), Arr(<<One("a", Num(1)), One("a", Num(2))>>),
   Arr(<<Obj(("a" :> Num(1)) @@ ("api_key" :> Key)), Num(2)>>)}

FilterValues == {Obj(NoProps), One("a", Num(1)), One("a", Num(2))}

UpdateValues == {One("b", Num(2)), Mapping3("a", Num(2), "api_key", Key, "updatedAt", Num(5))}

\* complete inserts with the configured key, and updates of a collection that stays empty
InsertRequests ==
  {Request("POST", "/api/insert",
           ("api_key" :> Key) @@ ("collection" :> Str("c")) @@ ("document" :> d)
           @@ ("metadata" :> m)) :
     d \in DocumentValues, m \in MetadataValues}
  \cup
  {Request("POST", "/api/insert_many",
           ("api_key" :> Key) @@ ("collection" :> Str("c")) @@ ("documents" :> d)
           @@ ("metadata" :> m)) :
     d \in DocumentsValues, m \in MetadataValues}
  \cup
  {Request("PUT", "/api/update",
           ("api_key" :> Key) @@ ("collection" :> Str("d")) @@ ("filter" :> One("a", Num(1)))
           @@ ("update" :> u)) :
     u \in UpdateValues}

\* complete updates with the configured key, and the inserts that give them documents
UpdateRequests ==
  {Request("POST", "/api/insert",
           ("api_key" :> Key) @@ ("collection" :> Str("c")) @@ ("document" :> One("a", Num(1)))),
   Request("POST", "/api/insert_many",
           ("api_key" :> Key) @@ ("collection" :> Str("c"))
           @@ ("documents" :> Arr(<<One("a", Num(1)), One("a", Num(2))>>)))}
  \cup
  {Request("PUT", "/api/update",
           ("api_key" :> Key) @@ ("collection" :> c) @@ ("filter" :> f) @@ ("update" :> u)) :
     c \in {Str("c"), Str("d")}, f \in FilterValues, u \in UpdateValues}

-----------------------------------------------------------------------------
(* Specifications.                                                         *)

Init ==
  /\ db = "null"
  /\ client = "null"
  /\ closing = 0
  /\ closingOld = 0
  /\ isConnected = FALSE
  /\ connPc = <<>>
  /\ retryTimer = 0
  /\ reachable \in BOOLEAN
  /\ main = "init"
  /\ exitCode = -1
  /\ signals = 0
  /\ forceTimer = FALSE
  /\ req = [r \in Slots |-> IdleSlot]
  /\ conn = [r \in Slots |-> FALSE]
  /\ store = <<>>
  /\ nextId = 1
  /\ now = 0

Connection ==
  \/ StartServer
  \/ RetryFire
  \/ \E i \in Attempts : ConnectResolved(i)
  \/ \E i \in Attempts : PingResolved(i)
  \/ \E i \in Attempts : ConnectFailed(i)
  \/ Outage
  \/ Restore

Shutdown(slots) ==
  \/ Signal(slots)
  \/ Drained
  \/ CloseResolved
  \/ ForceExit
  \/ \E r \in slots : Disconnect(r)

Lifecycle(slots) == Connection \/ Shutdown(slots)

Serve(slots, requests) ==
  \/ \E r \in slots, q \in requests : Receive(r, q)
  \/ \E r \in slots : DbResolved(r)
  \/ \E r \in slots : DbRejected(r)
  \/ \E r \in slots : Recycle(r)

\* concurrent handlers against the connection and process lifecycle, within one tick
\* of the clock: no branch of the code reads it, it only stamps the documents
Next == Lifecycle(Slots) \/ Serve(Slots, CoreRequests)

Spec == Init /\ [][Next]_vars

\* one request at a time, every combination of key and required fields
NextGate == Lifecycle({1}) \/ Tick \/ Serve({1}, GateRequests)

SpecGate == Init /\ [][NextGate]_vars

\* the same requests and those whose body is not JSON, within one tick of the clock
NextEnvelope ==
  \/ Lifecycle({1})
  \/ Serve({1}, GateRequests)
  \/ \E q \in GateRequests : ParseFailed(1, q)

SpecEnvelope == Init /\ [][NextEnvelope]_vars

\* one request at a time against the whole lifecycle; a timer that is due fires, a
\* promise that can settle settles, and a request that can be answered is answered
NextLive == Lifecycle({1}) \/ Serve({1}, CoreRequests)

Fairness ==
  /\ WF_vars(StartServer)
  /\ WF_vars(RetryFire)
  /\ WF_vars(\E i \in Attempts : ConnectResolved(i))
  /\ WF_vars(\E i \in Attempts : PingResolved(i))
  /\ WF_vars(\E i \in Attempts : ConnectFailed(i))
  /\ WF_vars(ForceExit)

SpecLive == Init /\ [][NextLive]_vars /\ Fairness

\* one request at a time, inserts of every shape, while the process is not shut down
NextInsert == Connection \/ Tick \/ Serve({1}, InsertRequests)

SpecInsert == Init /\ [][NextInsert]_vars

\* one request at a time, updates of every shape, while the process is not shut down
NextUpdate == Connection \/ Tick \/ Serve({1}, UpdateRequests)

SpecUpdate == Init /\ [][NextUpdate]_vars

-----------------------------------------------------------------------------
(* Vocabulary of the properties.                                           *)

Busy == {r \in Slots : req[r].pc # "idle"}
Done == {r \in Slots : req[r].pc = "done"}

RouteOf(r) == Route(req[r].method, req[r].path)
Status(r) == req[r].resp.status
Answer(r, f) == Field(req[r].resp.body, f)
Sent(r, f) == Field(req[r].body0, f)
Carries(r, f) == f \in DOMAIN req[r].body0
Issued(r) == req[r].op.kind # "none"

\* the endpoint the request's path names
PathOf(r) == routePath(req[r].path)

\* the endpoints the specification lists as mutating
Mutating(r) ==
  \/ req[r].method = "POST" /\ PathOf(r) \in {"/api/insert", "/api/insert_many"}
  \/ req[r].method = "PUT" /\ PathOf(r) = "/api/update"
  \/ req[r].method = "DELETE" /\ PathOf(r) = "/api/delete"

\* the data endpoints this server routes
DataRoutes == {"insert", "insert_many", "update"}

\* the required fields of the request's endpoint are all there
WellFormed(r) ==
  CASE RouteOf(r) = "insert" -> Truthy(Sent(r, "collection")) /\ Truthy(Sent(r, "document"))
    [] RouteOf(r) = "insert_many" ->
         Truthy(Sent(r, "collection")) /\ IsArray(Sent(r, "documents"))
    [] RouteOf(r) = "update" ->
         Truthy(Sent(r, "collection")) /\ Truthy(Sent(r, "filter")) /\ Truthy(Sent(r, "update"))
    [] OTHER -> TRUE

RequiredMessage(route) ==
  CASE route = "insert" -> "Missing required fields: collection, document"
    [] route = "insert_many" -> "Missing required fields: collection, documents (array)"
    [] OTHER -> "Missing required fields: collection, filter, update"

-----------------------------------------------------------------------------
(* C1 as stated: every request to a mutating endpoint (insert, insert_many, *)
(* update, delete) whose body lacks api_key is answered 401 with           *)
(* success:false.                                                          *)
C1_AsStated ==
  \A r \in Busy :
    Mutating(r) /\ ~Carries(r, "api_key") =>
      /\ req[r].pc = "done"
      /\ Status(r) = 401
      /\ Answer(r, "success") = Bool(FALSE)

-----------------------------------------------------------------------------
(* C2 as stated: on a data endpoint a request whose api_key differs from   *)
(* the configured key gets 401 "Invalid api_key" and its handler never     *)
(* runs; one whose api_key equals it reaches the handler with api_key      *)
(* removed and every other field unchanged; every database operation       *)
(* belongs to a request that presented the configured key.                 *)
C2_AsStated ==
  \A r \in Busy :
    RouteOf(r) \in DataRoutes =>
      /\ (Carries(r, "api_key") /\ Sent(r, "api_key") # Key) =>
           /\ req[r].pc = "done"
           /\ Status(r) = 401
           /\ Answer(r, "error") = Str("Invalid api_key")
           /\ ~req[r].ran
           /\ ~Issued(r)
      /\ Sent(r, "api_key") = Key =>
           /\ req[r].ran
           /\ req[r].body = [f \in (DOMAIN req[r].body0) \ {"api_key"} |-> req[r].body0[f]]
      /\ Issued(r) => Sent(r, "api_key") = Key

(* C2 amended: a key that differs from the configured one gets 401 and the *)
(* handler never runs; the error is "Invalid api_key" when the key is      *)
(* truthy and "Missing api_key in request body" when it is falsy (absent,  *)
(* null, empty string).  The rest is as stated.                            *)
C2_Gate ==
  \A r \in Busy :
    RouteOf(r) \in DataRoutes =>
      /\ Sent(r, "api_key") # Key =>
           /\ req[r].pc = "done"
           /\ Status(r) = 401
           /\ Answer(r, "success") = Bool(FALSE)
           /\ Answer(r, "error") = IF Truthy(Sent(r, "api_key"))
                                     THEN Str("Invalid api_key")
                                     ELSE Str("Missing api_key in request body")
           /\ ~req[r].ran
           /\ ~Issued(r)
           /\ req[r].body = req[r].body0
      /\ Sent(r, "api_key") = Key =>
           /\ req[r].ran
           /\ req[r].body = [f \in (DOMAIN req[r].body0) \ {"api_key"} |-> req[r].body0[f]]
      /\ Issued(r) => Sent(r, "api_key") = Key

\* reached: an update with the configured key was carried out by the database
C2_Witness ==
  \E r \in Done :
    /\ RouteOf(r) = "update"
    /\ Sent(r, "api_key") = Key
    /\ Issued(r)
    /\ Status(r) = 200
    /\ DOMAIN req[r].body = {"collection", "filter", "update"}

-----------------------------------------------------------------------------
(* C3: a request with the configured key that lacks a required field of    *)
(* its endpoint is answered 400 with success:false and the error naming    *)
(* the endpoint's required fields, and issues no database operation, in    *)
(* both connection states.                                                 *)
C3_MissingField ==
  \A r \in Busy :
    (RouteOf(r) \in DataRoutes /\ Sent(r, "api_key") = Key /\ ~WellFormed(r)) =>
      /\ req[r].pc = "done"
      /\ Status(r) = 400
      /\ Answer(r, "success") = Bool(FALSE)
      /\ Answer(r, "error") = Str(RequiredMessage(RouteOf(r)))
      /\ ~Issued(r)

\* reached: an insert without document is answered 400 while the database is down
C3_Witness ==
  \E r \in Done :
    /\ RouteOf(r) = "insert"
    /\ Sent(r, "api_key") = Key
    /\ Carries(r, "collection") /\ ~Carries(r, "document")
    /\ ~isConnected
    /\ Status(r) = 400

-----------------------------------------------------------------------------
(* C4 as stated: while isConnected is false every request to a data        *)
(* endpoint (insert, insert_many, query, update) is answered 503 and       *)
(* performs no database call.  Read in the claim's favour: of the requests *)
(* that carry the configured key and the endpoint's required fields.       *)
C4_AsStated ==
  ~isConnected =>
    \A r \in Busy :
      /\ ~Issued(r)
      /\ ((RouteOf(r) \in DataRoutes \/ (req[r].method = "POST" /\ PathOf(r) = "/api/query"))
          /\ Sent(r, "api_key") = Key /\ Truthy(Sent(r, "collection")) /\ WellFormed(r)) =>
           /\ req[r].pc = "done"
           /\ Status(r) = 503

-----------------------------------------------------------------------------
(* C5: in every interleaving of handlers with connect attempts, retry      *)
(* timers and shutdown, a handler that calls the database (insertOne,      *)
(* insertMany, updateOne) does so in a state where isConnected is true and *)
(* db is set, and isConnected is still true while it awaits the call.      *)
C5_NoCallWhileDisconnected ==
  \A r \in Slots :
    /\ Issued(r) => req[r].atCall.isConnected /\ req[r].atCall.db = "handle"
    /\ req[r].pc = "awaitDb" => isConnected /\ db = "handle"

\* reached: two handlers await the database while the server is shutting down
C5_Witness ==
  /\ main = "draining"
  /\ \E r1, r2 \in InFlight : r1 # r2 /\ req[r1].op.kind # req[r2].op.kind

-----------------------------------------------------------------------------
\* the connection can carry an operation now
ConnectionUsable == db = "handle" /\ Usable

(* C10: /health answers 200 in every connection state, and in every state  *)
(* in which it can be asked its mongodb field is "connected" exactly when  *)
(* the database connection is usable.                                      *)
C10_HealthTruthful ==
  main = "listening" =>
    LET h == healthResp(isConnected, now) IN
    /\ h.status = 200
    /\ (Field(h.body, "mongodb") = Str("connected")) <=> ConnectionUsable

-----------------------------------------------------------------------------
\* the records a database operation hands to the driver
Records(op) ==
  CASE op.kind = "insertOne" -> {op.arg}
    [] op.kind = "insertMany" -> {op.arg.o[key] : key \in DOMAIN op.arg.o}
    [] op.kind = "updateOne" -> {op.arg.o["$set"]}
    [] OTHER -> {}

(* C6 as stated: for every authenticated insert, insert_many or update,    *)
(* the records handed to insertOne / insertMany and the $set mapping       *)
(* handed to updateOne contain no api_key field, whatever the shape of     *)
(* document, documents, metadata and update.                               *)
C6_AsStated ==
  \A r \in Slots : \A rec \in Records(req[r].op) : ~Has(rec, "api_key")

(* C6 amended: the api_key of the request body is removed before the       *)
(* handler runs and is never copied into a record; a record handed to the  *)
(* driver has an api_key field exactly when the caller put one inside      *)
(* document, an element of documents, metadata or update, and then with    *)
(* the caller's value.                                                     *)
C6_KeyNotCopied ==
  \A r \in Slots :
    Issued(r) =>
      /\ "api_key" \notin DOMAIN req[r].body
      /\ req[r].op.kind = "insertOne" =>
           (Has(req[r].op.arg, "api_key")
              <=> (Has(Sent(r, "document"), "api_key") \/ Has(Sent(r, "metadata"), "api_key")))
      /\ req[r].op.kind = "insertMany" =>
           \A key \in DOMAIN req[r].op.arg.o :
             (Has(req[r].op.arg.o[key], "api_key")
                <=> (Has(Sent(r, "documents").o[key], "api_key")
                     \/ Has(Sent(r, "metadata"), "api_key")))
      /\ req[r].op.kind = "updateOne" =>
           (Has(req[r].op.arg.o["$set"], "api_key") <=> Has(Sent(r, "update"), "api_key"))

\* reached: a request sent with the key has stored a record without api_key
C6_Witness ==
  \E r \in Done :
    /\ RouteOf(r) = "insert"
    /\ Sent(r, "api_key") = Key
    /\ Status(r) = 200
    /\ ~Has(req[r].op.arg, "api_key")
    /\ \E i \in 1..Len(store) : store[i].doc.o["_id"].s = Answer(r, "insertedId").s

-----------------------------------------------------------------------------
\* the step in which the awaited database call of slot r ends
Completes(r) == req[r].pc = "awaitDb" /\ req'[r].pc = "done"

\* the properties of a mapping, none for an absent one
Props(v) == IF v.k = "object" THEN v.o ELSE NoProps

(* C7: an authenticated insert while connected whose driver call succeeds  *)
(* answers success:true with a non-empty string insertedId and the         *)
(* collection name, and stores exactly one record: document merged with    *)
(* metadata, metadata winning on a shared key, plus a server-generated     *)
(* createdAt that replaces any createdAt sent in document or metadata.     *)
C7_InsertStoresMerged ==
  [][\A r \in Slots :
       (/\ Completes(r)
        /\ req[r].op.kind = "insertOne"
        /\ Sent(r, "document").k = "object"
        /\ req'[r].resp.status # 500) =>
         LET d == Props(Sent(r, "document"))
             m == Props(Sent(r, "metadata"))
             rec == store'[Len(store')]
             id == Field(req'[r].resp.body, "insertedId")
         IN
         /\ req'[r].resp.status = 200
         /\ Field(req'[r].resp.body, "success") = Bool(TRUE)
         /\ id.k = "string" /\ id.s # ""
         /\ Field(req'[r].resp.body, "collection") = Sent(r, "collection")
         /\ Len(store') = Len(store) + 1
         /\ SubSeq(store', 1, Len(store)) = store
         /\ rec.coll = Sent(r, "collection").s
         /\ rec.doc.o["_id"].s = id.s
         /\ DOMAIN rec.doc.o = (DOMAIN d) \cup (DOMAIN m) \cup {"createdAt", "_id"}
         /\ rec.doc.o["createdAt"] = Date(req[r].at)
         /\ \A key \in ((DOMAIN d) \cup (DOMAIN m)) \ {"createdAt"} :
              rec.doc.o[key] = IF key \in DOMAIN m THEN m[key] ELSE d[key]
    ]_vars

\* reached: a stored record whose document and metadata shared a key and sent createdAt
C7_Witness ==
  \E r \in Done :
    /\ RouteOf(r) = "insert"
    /\ Status(r) = 200
    /\ Has(Sent(r, "document"), "createdAt") /\ Has(Sent(r, "document"), "a")
    /\ Has(Sent(r, "metadata"), "createdAt") /\ Has(Sent(r, "metadata"), "a")
    /\ \E i \in 1..Len(store) :
         /\ store[i].doc.o["_id"].s = Answer(r, "insertedId").s
         /\ store[i].doc.o["a"] = Sent(r, "metadata").o["a"]
         /\ store[i].doc.o["createdAt"].k = "date"

-----------------------------------------------------------------------------
\* driver failures that do not depend on the request
TransientErrors == {Str("write failed"), Str("Server selection timed out")}

(* C8 as stated: every sequence of documents, the empty one included, sent *)
(* to insert_many with a valid key while connected is answered             *)
(* success:true with insertedCount equal to its length.  Read in the       *)
(* claim's favour: unless the driver fails for a reason of its own.        *)
C8_AsStated ==
  \A r \in Done :
    (RouteOf(r) = "insert_many" /\ Issued(r) /\ Answer(r, "error") \notin TransientErrors) =>
      /\ Status(r) = 200
      /\ Answer(r, "success") = Bool(TRUE)
      /\ Answer(r, "insertedCount") = Num(ArrLen(Sent(r, "documents")))

(* C8 amended: for every non-empty sequence of documents sent to           *)
(* insert_many with a valid key while connected, when the driver call      *)
(* succeeds the answer is success:true with insertedCount equal to the     *)
(* length of the sequence, and every stored element carries the request's  *)
(* metadata fields and a createdAt read from the clock for that element,   *)
(* not before the request arrived and never earlier than the createdAt of  *)
(* the element before it; the empty sequence is rejected by the driver and *)
(* answered 500 with success:false, and nothing is stored.                 *)
C8_InsertMany ==
  [][\A r \in Slots :
       (Completes(r) /\ req[r].op.kind = "insertMany") =>
         LET n == ArrLen(Sent(r, "documents"))
             m == Props(Sent(r, "metadata"))
         IN
         /\ n = 0 =>
              /\ req'[r].resp.status = 500
              /\ Field(req'[r].resp.body, "success") = Bool(FALSE)
              /\ Field(req'[r].resp.body, "error").k = "string"
              /\ store' = store
         /\ (n > 0 /\ req'[r].resp.status # 500) =>
              /\ req'[r].resp.status = 200
              /\ Field(req'[r].resp.body, "success") = Bool(TRUE)
              /\ Field(req'[r].resp.body, "insertedCount") = Num(n)
              /\ Len(store') = Len(store) + n
              /\ SubSeq(store', 1, Len(store)) = store
              /\ \E ts \in [1..n -> req[r].at..now] :
                   /\ \A i \in 1..(n - 1) : ts[i] <= ts[i + 1]
                   /\ \A i \in 1..n :
                        store'[Len(store) + i].doc.o["createdAt"] = Date(ts[i])
              /\ \A i \in 1..n :
                   LET rec == store'[Len(store) + i] IN
                   /\ rec.coll = Sent(r, "collection").s
                   /\ \A key \in (DOMAIN m) \ {"createdAt"} :
                        key \in DOMAIN rec.doc.o /\ rec.doc.o[key] = m[key]
    ]_vars

\* reached: two documents sent with metadata are stored and counted, the second
\* stamped later than the first
C8_Witness ==
  \E r \in Done :
    /\ RouteOf(r) = "insert_many"
    /\ ArrLen(Sent(r, "documents")) = 2
    /\ Has(Sent(r, "metadata"), "a")
    /\ Status(r) = 200
    /\ Answer(r, "insertedCount") = Num(2)
    /\ Len(store) = 2
    /\ \A i \in 1..2 : store[i].doc.o["a"] = Sent(r, "metadata").o["a"]
    /\ store[1].doc.o["createdAt"] = Date(0)
    /\ store[2].doc.o["createdAt"] = Date(1)

-----------------------------------------------------------------------------
\* the stored documents of a collection that a filter selects, by position
Selected(coll, filter) ==
  {i \in 1..Len(store) :
     /\ store[i].coll = coll
     /\ \A key \in DOMAIN filter.o :
          key \in DOMAIN store[i].doc.o /\ store[i].doc.o[key] = filter.o[key]}

(* C9: an authenticated update while connected whose driver call succeeds  *)
(* changes at most the first document matching filter, setting only the    *)
(* fields of update plus updatedAt, and never creates a document; when no  *)
(* document matches the answer is success:true with matchedCount 0 and     *)
(* modifiedCount 0 and the collection is unchanged; always                 *)
(* modifiedCount <= matchedCount <= 1.                                     *)
C9_UpdateFirstMatch ==
  [][\A r \in Slots :
       (Completes(r) /\ req[r].op.kind = "updateOne" /\ req'[r].resp.status # 500) =>
         LET u == Props(Sent(r, "update"))
             hits == Selected(Sent(r, "collection").s, Sent(r, "filter"))
             matched == Field(req'[r].resp.body, "matchedCount")
             modified == Field(req'[r].resp.body, "modifiedCount")
         IN
         /\ req'[r].resp.status = 200
         /\ Field(req'[r].resp.body, "success") = Bool(TRUE)
         /\ Len(store') = Len(store)
         /\ matched \in {Num(0), Num(1)}
         /\ modified \in {Num(0), Num(1)}
         /\ modified = Num(1) => matched = Num(1)
         /\ hits = {} => matched = Num(0) /\ modified = Num(0) /\ store' = store
         /\ hits # {} =>
              LET i == CHOOSE h \in hits : \A j \in hits : h <= j IN
              /\ matched = Num(1)
              /\ modified = Num(IF store'[i] # store[i] THEN 1 ELSE 0)
              /\ \A j \in (1..Len(store)) \ {i} : store'[j] = store[j]
              /\ store'[i].coll = store[i].coll
              /\ DOMAIN store'[i].doc.o = (DOMAIN store[i].doc.o) \cup (DOMAIN u) \cup {"updatedAt"}
              /\ \A key \in DOMAIN store'[i].doc.o :
                   store'[i].doc.o[key] =
                     IF key = "updatedAt" THEN Date(req[r].at)
                     ELSE IF key \in DOMAIN u THEN u[key]
                     ELSE store[i].doc.o[key]
    ]_vars

\* reached: of two stored documents matching the filter only the first was updated
C9_Witness ==
  \E r \in Done :
    /\ RouteOf(r) = "update"
    /\ Status(r) = 200
    /\ Sent(r, "filter") = Obj(NoProps)
    /\ Answer(r, "matchedCount") = Num(1)
    /\ Answer(r, "modifiedCount") = Num(1)
    /\ Len(store) = 2
    /\ store[1].coll = "c" /\ store[2].coll = "c"
    /\ Has(store[1].doc, "updatedAt")
    /\ ~Has(store[2].doc, "updatedAt")

-----------------------------------------------------------------------------
\* the step in which a connectDB() invocation returns
AttemptEnds == Len(connPc') < Len(connPc)

(* C11: a connect attempt that ends while the database does not answer     *)
(* leaves isConnected false and schedules exactly one more retry, and one  *)
(* that ends while it answers schedules none; when timers fire and         *)
(* promises settle, if the database is reachable from some point on and    *)
(* the process is not shut down, isConnected eventually becomes true,      *)
(* after any number of failed attempts.                                    *)
C11_RetryUntilConnected ==
  /\ [][AttemptEnds =>
          IF reachable
            THEN isConnected' /\ retryTimer' = retryTimer
            ELSE ~isConnected' /\ retryTimer' = retryTimer + 1]_vars
  /\ ((<>[]reachable) /\ [](main # "exited")) => <>isConnected

\* reached: connected by a retry, after a request was refused while disconnected
C11_Witness ==
  /\ isConnected
  /\ retryTimer = 0
  /\ \E r \in Done : Status(r) = 503

-----------------------------------------------------------------------------
(* C12: a connect attempt that fails never ends the process, which exits   *)
(* only after a termination signal; startServer waits for its own connect  *)
(* attempt alone and starts listening in the step in which that attempt    *)
(* ends, failed or not; no request is served before; and while isConnected *)
(* is false every request to insert, insert_many or update with the        *)
(* configured key and its required fields is answered 503.                 *)
C12_StartupFailureTolerated ==
  /\ [][AttemptEnds => main' # "exited" /\ exitCode' = -1]_vars
  /\ [](exitCode # -1 => signals > 0)
  /\ [](main = "starting" => Len(connPc) = 1 /\ retryTimer = 0)
  /\ [][(main = "starting" /\ AttemptEnds) => main' = "listening"]_vars
  /\ [][main = "starting" => (main' # "starting" <=> AttemptEnds)]_vars
  /\ [](main \in {"init", "starting"} => Busy = {})
  /\ [](~isConnected =>
         \A r \in Busy :
           (RouteOf(r) \in DataRoutes /\ Sent(r, "api_key") = Key /\ WellFormed(r)) =>
             req[r].pc = "done" /\ Status(r) = 503 /\ ~Issued(r))

\* reached: the first attempt failed, the server listens and has refused a complete insert
C12_Witness ==
  /\ main = "listening"
  /\ ~isConnected /\ db = "null"
  /\ retryTimer = 1
  /\ exitCode = -1
  /\ \E r \in Done :
       /\ RouteOf(r) = "insert"
       /\ Sent(r, "api_key") = Key
       /\ WellFormed(r)
       /\ Status(r) = 503

-----------------------------------------------------------------------------
\* the phases a process goes through, in order
PhaseOrder ==
  {<<"init", "starting">>, <<"starting", "listening">>, <<"listening", "draining">>,
   <<"draining", "closingDb">>, <<"closingDb", "exited">>, <<"draining", "exited">>}

\* slot r takes a new request in this step
Accepts(r) == req[r].pc = "idle" /\ req'[r].pc # "idle"

(* C13: after a termination signal no new connection is accepted; the      *)
(* database connection is closed only once no request awaits a database    *)
(* call, and none awaits one while it is closed or being closed; the       *)
(* process exits with code 0 only from the closing of the connection and   *)
(* with code 1 only when a force-exit timer fires, which it may do during  *)
(* the drain or the close; when timers fire, every signal is followed by   *)
(* the exit.                                                               *)
C13_OrderedShutdown ==
  /\ [][main' # main => <<main, main'>> \in PhaseOrder]_vars
  /\ [][\A r \in Slots : conn'[r] /\ ~conn[r] => main = "listening"]_vars
  /\ [](signals > 0 => main \in {"draining", "closingDb", "exited"} /\ forceTimer)
  /\ []((main = "closingDb" \/ client = "closed") => InFlight = {})
  /\ [][main' = "exited" /\ main # "exited" =>
          \/ main = "closingDb" /\ InFlight = {} /\ client' = "closed" /\ exitCode' = 0
          \/ forceTimer /\ client' = client /\ exitCode' = 1]_vars
  /\ [](main = "exited" <=> exitCode \in {0, 1})
  /\ [](exitCode = 0 => client = "closed")
  /\ (signals > 0) ~> (main = "exited")

-----------------------------------------------------------------------------
\* the response has the field
Answers(r, f) == f \in DOMAIN req[r].resp.body

\* the request's database operation was carried out
Performed(r) == Issued(r) /\ req[r].pc = "done" /\ req[r].thrown = ""

(* C14 as stated: every response, on every route (/, /health, the data     *)
(* endpoints, unmatched routes, the error handler), includes a success     *)
(* boolean, true exactly on the successful ones, and every failure         *)
(* response adds an error string.                                          *)
C14_AsStated ==
  \A r \in Done :
    /\ Answer(r, "success").k = "boolean"
    /\ Answer(r, "success") = Bool(TRUE) <=> Status(r) < 400
    /\ Status(r) >= 400 => Answer(r, "error").k = "string"

(* C14 amended: every response of insert, insert_many and update, of an    *)
(* unmatched route and of the error handler includes a success boolean,    *)
(* true exactly when the request's database operation was carried out, in  *)
(* which case the status is 200 and there is no error field; every other   *)
(* such response has status 400, 401, 404, 500 or 503 and a non-empty      *)
(* error string.  The responses of / and /health have status 200 and       *)
(* neither a success nor an error field.                                   *)
C14_Envelope ==
  \A r \in Done :
    IF RouteOf(r) \in {"root", "health"} /\ Status(r) = 200
      THEN ~Answers(r, "success") /\ ~Answers(r, "error")
      ELSE /\ Answer(r, "success").k = "boolean"
           /\ Answer(r, "success") = Bool(TRUE) <=> Performed(r)
           /\ Performed(r) => Status(r) = 200 /\ ~Answers(r, "error")
           /\ ~Performed(r) =>
                /\ Status(r) \in {400, 401, 404, 500, 503}
                /\ Answer(r, "error").k = "string"
                /\ Answer(r, "error").s # ""

\* reached: the error handler has answered a request whose body did not parse
C14_Witness ==
  \E r \in Done :
    /\ Status(r) = 500
    /\ ~req[r].ran
    /\ Answer(r, "success") = Bool(FALSE)
    /\ Answer(r, "error") = Str("Internal server error")

-----------------------------------------------------------------------------
\* a further termination signal is handled in this step
SignalAgain == signals > 0 /\ signals' > signals

(* C15: a termination signal that follows another has the outcome of the   *)
(* first alone.  It changes nothing but the count of signals and the idle  *)
(* connections of clients, which it may end, and repeats close() on no     *)
(* MongoClient but the one that is being closed already: the phase of the  *)
(* shutdown, the database connection, the pending force timer, the         *)
(* requests and the exit code are as a single signal left them; close() is *)
(* awaited on one MongoClient only, so one connection is released; the     *)
(* database connection is closed in one step only, the one that exits with *)
(* code 0; and once the process has exited nothing more happens, so it     *)
(* exits once and its exit code never changes.                             *)
C15_RepeatedSignal ==
  /\ [][SignalAgain =>
          /\ UNCHANGED <<db, client, closingOld, isConnected, connPc, retryTimer, reachable,
                         main, exitCode, forceTimer, req, store, nextId, now>>
          /\ closing' # closing => closing > 0
          /\ \A r \in Slots : conn'[r] # conn[r] => r \in Idle /\ ~conn'[r]]_vars
  /\ [](closing = 0 \/ closingOld = 0)
  /\ [][client' # client /\ client' = "closed" =>
          main = "closingDb" /\ main' = "exited" /\ exitCode' = 0]_vars
  /\ [][main # "exited" /\ exitCode = -1]_vars

-----------------------------------------------------------------------------
\* ConnectionState, and the client it belongs to
ConnectionState == <<db, client, isConnected>>

\* a step of a request: its arrival with the middleware and handler it runs, the
\* settling of its database call with the response, or its end
HandlerStep == req' # req

\* a step of connectDB
ConnectStep == connPc' # connPc

\* the step in which client.close() of shutdown completes
CloseStep == main = "closingDb" /\ main' = "exited"

(* C16: no step of a request (authenticate, the handlers of insert,        *)
(* insert_many and update up to and after their database call, a driver    *)
(* error included, /, /health, the 404 handler, the error handler) changes *)
(* db, client or isConnected, nor starts a connect attempt or a retry      *)
(* timer; db, client and isConnected change only in a step of connectDB or *)
(* in the close of shutdown.                                               *)
C16_HandlersLeaveConnection ==
  /\ [][HandlerStep => UNCHANGED <<ConnectionState, connPc, retryTimer>>]_vars
  /\ [][ConnectionState' # ConnectionState => ConnectStep \/ CloseStep]_vars

\* reached: a driver error was answered while the database was away, and the
\* connection state still reads connected
C16_Witness ==
  /\ \E r \in Done : req[r].thrown # "" /\ Status(r) = 500
  /\ ~reachable
  /\ isConnected /\ db = "handle" /\ client = "connected"

-----------------------------------------------------------------------------
\* the awaited database call of slot r rejects in this step
Rejects(r) == Completes(r) /\ req'[r].thrown # ""

(* C17: a request whose insertOne, insertMany or updateOne call the driver *)
(* rejected has exactly one response: status 500, success:false and the    *)
(* driver's message as error, not the "Internal server error" of the       *)
(* catch-all handler; the step that answers it leaves every other request, *)
(* in flight or answered, and the process as they were.                    *)
C17_DriverErrorAnswered ==
  /\ [](\A r \in Slots :
          req[r].thrown # "" =>
            /\ req[r].pc = "done"
            /\ req[r].nresp = 1
            /\ Status(r) = 500
            /\ Answer(r, "success") = Bool(FALSE)
            /\ Answer(r, "error") = Str(req[r].thrown)
            /\ req[r].resp # serverErrorResp)
  /\ [][\A r \in Slots :
          Rejects(r) =>
            /\ req[r].op.kind \in {"insertOne", "insertMany", "updateOne"}
            /\ req[r].nresp = 0
            /\ \A r2 \in Slots \ {r} : req'[r2] = req[r2]
            /\ UNCHANGED <<connVars, procVars>>]_vars

\* reached: of two requests awaiting the database one was rejected and answered
\* 500 with the driver's message, and the other still awaits its call
C17_Witness ==
  \E r1, r2 \in Slots :
    /\ r1 # r2
    /\ req[r1].thrown = "write failed"
    /\ Status(r1) = 500
    /\ Answer(r1, "error") = Str("write failed")
    /\ req[r2].pc = "awaitDb"

-----------------------------------------------------------------------------
\* slot r holds a request to a data endpoint with the configured key and the
\* endpoint's required fields
Complete(r) == RouteOf(r) \in DataRoutes /\ Sent(r, "api_key") = Key /\ WellFormed(r)

(* C18: once isConnected is true it stays true, and db set, in every later *)
(* state, also when the database goes away; from then on no connect        *)
(* attempt runs and no retry timer is pending; a request to insert,        *)
(* insert_many or update with the configured key and its required fields   *)
(* that arrives then is handed to the driver, and is answered 200 or 500,  *)
(* never 503.                                                              *)
C18_ConnectedForGood ==
  /\ [][isConnected => isConnected' /\ db' = "handle"]_vars
  /\ [](isConnected => db = "handle" /\ connPc = <<>> /\ retryTimer = 0)
  /\ [][\A r \in Slots :
          (Accepts(r) /\ isConnected /\ Complete(r)') =>
            req'[r].pc = "awaitDb" /\ req'[r].atCall.isConnected]_vars
  /\ [](\A r \in Done :
          (Complete(r) /\ Issued(r)) => Status(r) \in {200, 500})
  /\ [](\A r \in Done : (Complete(r) /\ Status(r) = 503) => ~Issued(r))

\* reached: the database went away after the connect succeeded; the flag still
\* reads true, nothing reconnects, and a complete update was answered 500
C18_Witness ==
  /\ isConnected
  /\ ~reachable
  /\ connPc = <<>> /\ retryTimer = 0
  /\ \E r \in Done : RouteOf(r) = "update" /\ Complete(r) /\ Status(r) = 500

-----------------------------------------------------------------------------
\* a connectDB() invocation starts in this step
AttemptStarts == Len(connPc') > Len(connPc)

(* C19: in every state the connect attempts in flight and the retry timers *)
(* pending number at most one together; an attempt is started by           *)
(* startServer, once, when the process starts, and otherwise by a retry    *)
(* timer, which it consumes; a retry timer is armed only by an attempt     *)
(* that ends in failure; so client, db and isConnected are written only    *)
(* while a single attempt runs.                                            *)
C19_OneAttemptAtATime ==
  /\ [](Len(connPc) + retryTimer <= 1)
  /\ [](main = "init" => connPc = <<>> /\ retryTimer = 0)
  /\ [][AttemptStarts =>
          /\ Len(connPc') = Len(connPc) + 1
          /\ \/ main = "init" /\ main' = "starting" /\ retryTimer' = retryTimer
             \/ main # "init" /\ retryTimer > 0 /\ retryTimer' = retryTimer - 1]_vars
  /\ [][retryTimer' > retryTimer =>
          AttemptEnds /\ ~reachable /\ retryTimer' = retryTimer + 1]_vars
  /\ [][ConnectStep => Len(connPc) <= 1 /\ Len(connPc') <= 1]_vars

\* reached: the first attempt failed, its timer fired, and the attempt of the retry
\* is at its ping, alone
C19_Witness ==
  /\ main = "listening"
  /\ connPc = <<"ping">>
  /\ retryTimer = 0
  /\ ~isConnected

====
